---- MODULE Spec2Model ----
(***************************************************************************)
(* Account deletion workflow of delete_account.py: the identity-provider   *)
(* removal, the owned-data purge, the reference purge and the orchestrator *)
(* that sequences them.  Every remote call (identity provider, document    *)
(* store) is one atomic step that either takes effect or raises.           *)
(***************************************************************************)
EXTENDS Integers, Sequences, FiniteSets, TLC

\* ---------------------------------------------------------------- bounds
MaxRefDocs == 2
MaxFailures == 2
MaxConcFailures == 1
MaxDeletions == 2

\* ------------------------------------------------------------- constants
Procs == {1, 2}
Uids == {"u1", "u2"}
NoDoc == "-"
CoreCollections == <<"users", "userStatistics">>
other_collections == <<"userPreferences", "gameHistory", "userAchievements">>
OwnedCollections == CoreCollections \o other_collections
RefCollections == <<"triviaRooms", "availablePlayers">>
DocIds == 0..MaxRefDocs
NoResult == [none |-> TRUE]

SeqToSet(s) == {s[i] : i \in 1..Len(s)}

VARIABLES
  active,               \* callers that issue requests
  authUsers,            \* identifiers known to the identity provider
  owned,                \* owned[c]: identifiers with a document in collection c
  triviaRooms,          \* triviaRooms[d]: createdBy of document d, NoDoc if absent
  availablePlayers,     \* availablePlayers[d]: userId of document d, NoDoc if absent
  pc,                   \* pc[p]: the remote call caller p is about to make
  entry,                \* entry[p]: the function p invoked
  user_id,              \* user_id[p]: its argument
  auth_deleted,         \* local of complete_user_deletion
  deleted_collections,  \* local of delete_user_firestore_data
  idx,                  \* position of the for loop over other_collections
  deleted_docs,         \* local of delete_user_related_documents
  pending,              \* query snapshot not yet iterated
  result,               \* what the last invocation returned or raised
  messages,             \* st.warning / st.error emitted by the invocation
  pre,                  \* store contents when the invocation started
  trace,                \* remote calls and failures of the invocation
  prev,                 \* summary of the invocation before this one
  session_state,        \* st.session_state: the keys present and their values
  ui,                   \* what the running script of the session waits for
  handler,              \* the widget event the last script run handled
  posted,               \* responses to the requests.post calls of the last script run
  auth_result,          \* what authenticate_user returned in the last script run
  last_uid,             \* uid of the last successful authenticate_user
  deletions             \* presses of the delete button in the session

store == <<authUsers, owned, triviaRooms, availablePlayers>>
locals == <<auth_deleted, deleted_collections, idx, deleted_docs, pending>>
frame == <<entry, user_id, pre, prev>>
session == <<session_state, ui, handler, posted, auth_result, last_uid, deletions>>
vars == <<active, authUsers, owned, triviaRooms, availablePlayers, pc, entry,
          user_id, auth_deleted, deleted_collections, idx, deleted_docs,
          pending, result, messages, pre, trace, prev, session_state, ui,
          handler, posted, auth_result, last_uid, deletions>>

Snapshot == [authUsers |-> authUsers, owned |-> owned,
             triviaRooms |-> triviaRooms, availablePlayers |-> availablePlayers]

\* Documents of a referencing collection whose field equals uid, in the
\* store's default order (ascending document id).
RECURSIVE Ascending(_)
Ascending(S) ==
  IF S = {} THEN <<>>
  ELSE LET m == CHOOSE x \in S : \A y \in S : x <= y
       IN <<m>> \o Ascending(S \ {m})

\* Mutation: the query carries no filter.
Matching_Unfiltered(coll, uid) == {d \in DocIds : coll[d] # NoDoc}

Matching(coll, uid) == {d \in DocIds : coll[d] = uid}

\* ------------------------------------------------------------------ Init
\* "u1" starts with any subset of its owned documents and with at most
\* MaxRefDocs referencing documents, spread over the two referencing
\* collections; "u2" is a fully populated account (document 0 of each
\* referencing collection is its own).
RefDocs(k) == [d \in DocIds |-> IF d = 0 THEN "u2" ELSE IF d <= k THEN "u1" ELSE NoDoc]

InitStore ==
  /\ \E a \in SUBSET {"u1"} : authUsers = a \cup {"u2"}
  /\ \E s \in SUBSET SeqToSet(OwnedCollections) :
       owned = [c \in SeqToSet(OwnedCollections) |->
                  IF c \in s THEN {"u1", "u2"} ELSE {"u2"}]
  /\ \E k \in 0..MaxRefDocs, l \in 0..MaxRefDocs :
       /\ k + l <= MaxRefDocs
       /\ triviaRooms = RefDocs(k)
       /\ availablePlayers = RefDocs(l)

InitProcs ==
  /\ pc = [p \in Procs |-> "idle"]
  /\ entry = [p \in Procs |-> "none"]
  /\ user_id = [p \in Procs |-> "u1"]
  /\ auth_deleted = [p \in Procs |-> FALSE]
  /\ deleted_collections = [p \in Procs |-> <<>>]
  /\ idx = [p \in Procs |-> 1]
  /\ deleted_docs = [p \in Procs |-> 0]
  /\ pending = [p \in Procs |-> <<>>]
  /\ result = [p \in Procs |-> NoResult]
  /\ messages = [p \in Procs |-> {}]
  /\ pre = [p \in Procs |-> Snapshot]
  /\ trace = [p \in Procs |-> {}]
  /\ prev = [p \in Procs |-> NoResult]
  /\ session_state = [page |-> "home"]
  /\ ui = "ready"
  /\ handler = "none"
  /\ posted = <<>>
  /\ auth_result = NoResult
  /\ last_uid = NoDoc
  /\ deletions = 0

Init == active = {1} /\ InitStore /\ InitProcs

\* ------------------------------------------------------- call and return
Log(p, ev) == trace' = [trace EXCEPT ![p] = @ \cup {ev}]

ResetLocals(p) ==
  /\ auth_deleted' = [auth_deleted EXCEPT ![p] = FALSE]
  /\ deleted_collections' = [deleted_collections EXCEPT ![p] = <<>>]
  /\ idx' = [idx EXCEPT ![p] = 1]
  /\ deleted_docs' = [deleted_docs EXCEPT ![p] = 0]
  /\ pending' = [pending EXCEPT ![p] = <<>>]

Failures(t) == {ev \in t : ev[1] \in {"fail_auth", "fail_get", "fail_delete", "fail_query"}}

\* Whether the invocation left by a normal return (for the orchestrator:
\* by a result with success = True).
Returned(r) ==
  \/ "returned" \in DOMAIN r
  \/ "success" \in DOMAIN r /\ r.success

Summary(p) ==
  IF entry[p] = "none" THEN NoResult
  ELSE [entry |-> entry[p], user_id |-> user_id[p],
        returned |-> Returned(result[p]),
        clean |-> Failures(trace[p]) = {},
        deleted |-> store # <<pre[p].authUsers, pre[p].owned, pre[p].triviaRooms,
                              pre[p].availablePlayers>>]

\* A remote call of the invocation may fail while fewer than MaxFailures
\* of its calls have failed (and, while two callers run or a session drives
\* the run, fewer than MaxConcFailures calls of the runs together).
CanFail(p) ==
  /\ Cardinality(Failures(trace[p])) < MaxFailures
  /\ (active = Procs \/ ui = "deleting") =>
       Cardinality(Failures(trace[1])) + Cardinality(Failures(trace[2])) < MaxConcFailures

\* Mutation: the orchestrator purges the documents before it removes the
\* identity (it starts at step 2).
FirstPc_DataFirst(fn) ==
  CASE fn = "complete_user_deletion" -> "users_get"
    [] fn = "delete_user_firestore_data" -> "users_get"
    [] fn = "delete_user_related_documents" -> "rooms_query"

FirstPc(fn) ==
  CASE fn = "complete_user_deletion" -> "auth_delete"
    [] fn = "delete_user_firestore_data" -> "users_get"
    [] fn = "delete_user_related_documents" -> "rooms_query"

\* A caller invokes one of the three functions on an identifier.
Invoke(p, fn, uid) ==
  /\ p \in active
  /\ pc[p] = "idle"
  /\ prev' = [prev EXCEPT ![p] = Summary(p)]
  /\ entry' = [entry EXCEPT ![p] = fn]
  /\ user_id' = [user_id EXCEPT ![p] = uid]
  /\ pre' = [pre EXCEPT ![p] = Snapshot]
  /\ trace' = [trace EXCEPT ![p] = {<<"call", fn>>}]
  /\ messages' = [messages EXCEPT ![p] = {}]
  /\ result' = [result EXCEPT ![p] = NoResult]
  /\ pc' = [pc EXCEPT ![p] = FirstPc(fn)]
  /\ ResetLocals(p)
  /\ UNCHANGED <<active, store>>

\* ------------------------------------------------------------ exceptions
Exception(msg) == [msg |-> msg]
Str(e) == e.msg

\* line 125: raise Exception(f"Failed to delete user data from Firestore: {e}")
FatalError(e) == Exception(<<"Failed to delete user data from Firestore: ", Str(e)>>)

\* ----------------------------------------------- delete_user_from_auth
\* auth.delete_user removes the identity (True), reports that there is none
\* (warning, True), or fails otherwise (error, False).
\* line 84: auth.delete_user removed the identity
AuthDeleted(p) ==
  /\ user_id[p] \in authUsers
  /\ authUsers' = authUsers \ {user_id[p]}
  /\ auth_deleted' = [auth_deleted EXCEPT ![p] = TRUE]
  /\ Log(p, <<"call", "delete_user_firestore_data">>)
  /\ UNCHANGED messages

\* Mutation: "user not found" is treated like any other provider error.
AuthNotFound_False(p) ==
  /\ user_id[p] \notin authUsers
  /\ auth_deleted' = [auth_deleted EXCEPT ![p] = FALSE]
  /\ messages' = [messages EXCEPT ![p] = @ \cup {"auth_error"}]
  /\ trace' = [trace EXCEPT ![p] =
                 @ \cup {<<"not_found", "auth">>, <<"call", "delete_user_firestore_data">>}]
  /\ UNCHANGED authUsers

\* lines 85-87: auth.UserNotFoundError
AuthNotFound(p) ==
  /\ user_id[p] \notin authUsers
  /\ auth_deleted' = [auth_deleted EXCEPT ![p] = TRUE]
  /\ messages' = [messages EXCEPT ![p] = @ \cup {"auth_user_not_found"}]
  /\ trace' = [trace EXCEPT ![p] =
                 @ \cup {<<"not_found", "auth">>, <<"call", "delete_user_firestore_data">>}]
  /\ UNCHANGED authUsers

\* Mutation: a provider error is reported as a deleted identity.
AuthError_True(p) ==
  /\ CanFail(p)
  /\ auth_deleted' = [auth_deleted EXCEPT ![p] = TRUE]
  /\ messages' = [messages EXCEPT ![p] = @ \cup {"auth_error"}]
  /\ trace' = [trace EXCEPT ![p] =
                 @ \cup {<<"fail_auth", "auth">>, <<"call", "delete_user_firestore_data">>}]
  /\ UNCHANGED authUsers

\* lines 88-90: any other exception
AuthError(p) ==
  /\ CanFail(p)
  /\ auth_deleted' = [auth_deleted EXCEPT ![p] = FALSE]
  /\ messages' = [messages EXCEPT ![p] = @ \cup {"auth_error"}]
  /\ trace' = [trace EXCEPT ![p] =
                 @ \cup {<<"fail_auth", "auth">>, <<"call", "delete_user_firestore_data">>}]
  /\ UNCHANGED authUsers

\* Step 1 of complete_user_deletion; step 2 follows whatever it returned.
delete_user_from_auth(p) ==
  /\ pc[p] = "auth_delete"
  /\ (AuthDeleted(p) \/ AuthNotFound(p) \/ AuthError(p))
  /\ pc' = [pc EXCEPT ![p] = "users_get"]
  /\ UNCHANGED <<active, session, owned, triviaRooms, availablePlayers, frame, result,
                 deleted_collections, idx, deleted_docs, pending>>

\* ------------------------------------------ delete_user_firestore_data
\* Mutation: the orchestrator logs the fatal error and goes on to step 3.
RaiseFatal_Continue(p, ev) ==
  /\ CanFail(p)
  /\ trace' = [trace EXCEPT ![p] = @ \cup {ev, <<"raise", "delete_user_firestore_data">>}]
  /\ pc' = [pc EXCEPT ![p] = "rooms_query"]
  /\ UNCHANGED <<active, session, store, frame, locals, messages, result>>

\* Mutation: the failed result also reports what was done before the error.
RaiseFatal_Partial(p, ev) ==
  /\ CanFail(p)
  /\ trace' = [trace EXCEPT ![p] = @ \cup {ev, <<"raise", "delete_user_firestore_data">>}]
  /\ result' = [result EXCEPT ![p] =
                  [success |-> FALSE, error |-> Str(FatalError(Exception(ev))),
                   auth_deleted |-> auth_deleted[p],
                   collections_deleted |-> deleted_collections[p]]]
  /\ pc' = [pc EXCEPT ![p] = "idle"]
  /\ UNCHANGED <<active, session, store, frame, locals, messages>>

\* Mutation: the orchestrator lets the fatal error through to its caller.
RaiseFatal_Propagate(p, ev) ==
  /\ CanFail(p)
  /\ trace' = [trace EXCEPT ![p] = @ \cup {ev, <<"raise", "delete_user_firestore_data">>}]
  /\ result' = [result EXCEPT ![p] = [raised |-> FatalError(Exception(ev))]]
  /\ pc' = [pc EXCEPT ![p] = "idle"]
  /\ UNCHANGED <<active, session, store, frame, locals, messages>>

\* lines 124-125 and, under complete_user_deletion, lines 177-181: the
\* exception of a users / userStatistics step leaves the purge as a fatal
\* error, which the orchestrator turns into a failed result.
RaiseFatal(p, ev) ==
  /\ CanFail(p)
  /\ trace' = [trace EXCEPT ![p] = @ \cup {ev, <<"raise", "delete_user_firestore_data">>}]
  /\ result' = [result EXCEPT ![p] =
                  IF entry[p] = "complete_user_deletion"
                  THEN [success |-> FALSE, error |-> Str(FatalError(Exception(ev)))]
                  ELSE [raised |-> FatalError(Exception(ev))]]
  /\ pc' = [pc EXCEPT ![p] = "idle"]
  /\ UNCHANGED <<active, session, store, frame, locals, messages>>

\* Mutation: the document is deleted without its existence being checked.
CoreGet_NoCheck(p, c, here, deletePc, nextPc) ==
  /\ pc[p] = here
  /\ \/ /\ Log(p, <<"get", c>>)
        /\ pc' = [pc EXCEPT ![p] = deletePc]
        /\ UNCHANGED <<active, session, store, frame, locals, messages, result>>
     \/ RaiseFatal(p, <<"fail_get", c>>)

\* doc.get().exists for a users / userStatistics document
CoreGet(p, c, here, deletePc, nextPc) ==
  /\ pc[p] = here
  /\ \/ /\ Log(p, <<"get", c>>)
        /\ pc' = [pc EXCEPT ![p] = IF user_id[p] \in owned[c] THEN deletePc ELSE nextPc]
        /\ UNCHANGED <<active, session, store, frame, locals, messages, result>>
     \/ RaiseFatal(p, <<"fail_get", c>>)

\* Mutation: a failed delete of a users / userStatistics document is absorbed
\* like that of an optional collection.
CoreDelete_Absorb(p, c, here, nextPc) ==
  /\ pc[p] = here
  /\ \/ /\ owned' = [owned EXCEPT ![c] = @ \ {user_id[p]}]
        /\ deleted_collections' = [deleted_collections EXCEPT ![p] = Append(@, c)]
        /\ Log(p, <<"delete", c>>)
     \/ /\ CanFail(p)
        /\ Log(p, <<"fail_delete", c>>)
        /\ UNCHANGED <<owned, deleted_collections>>
  /\ pc' = [pc EXCEPT ![p] = nextPc]
  /\ UNCHANGED <<active, session, authUsers, triviaRooms, availablePlayers, frame,
                 auth_deleted, idx, deleted_docs, pending, messages, result>>

\* doc.delete(); deleted_collections.append(c)
CoreDelete(p, c, here, nextPc) ==
  /\ pc[p] = here
  /\ \/ /\ owned' = [owned EXCEPT ![c] = @ \ {user_id[p]}]
        /\ deleted_collections' = [deleted_collections EXCEPT ![p] = Append(@, c)]
        /\ Log(p, <<"delete", c>>)
        /\ pc' = [pc EXCEPT ![p] = nextPc]
        /\ UNCHANGED <<active, session, authUsers, triviaRooms, availablePlayers, frame,
                       auth_deleted, idx, deleted_docs, pending, messages, result>>
     \/ RaiseFatal(p, <<"fail_delete", c>>)

UsersGet(p) == CoreGet(p, "users", "users_get", "users_delete", "stats_get")
UsersDelete(p) == CoreDelete(p, "users", "users_delete", "stats_get")
StatsGet(p) == CoreGet(p, "userStatistics", "stats_get", "stats_delete", "other_get")
StatsDelete(p) == CoreDelete(p, "userStatistics", "stats_delete", "other_get")

\* Mutation: the loop over other_collections ends at the first item.
NextOther_Break(p) ==
  /\ idx' = [idx EXCEPT ![p] = @ + 1]
  /\ pc' = [pc EXCEPT ![p] = "purge_return"]

\* The for loop over other_collections moves to its next item, or ends.
NextOther(p) ==
  /\ idx' = [idx EXCEPT ![p] = @ + 1]
  /\ pc' = [pc EXCEPT ![p] = IF idx[p] < Len(other_collections)
                             THEN "other_get" ELSE "purge_return"]

\* Mutation: the failure of an optional collection reaches the outer handler.
AbsorbOther_Fatal(p, ev) == RaiseFatal(p, ev)

\* lines 119-120: except Exception: pass
AbsorbOther(p, ev) ==
  /\ CanFail(p)
  /\ Log(p, ev)
  /\ NextOther(p)
  /\ UNCHANGED <<active, session, store, frame, auth_deleted, deleted_collections,
                 deleted_docs, pending, messages, result>>

OtherGet(p) ==
  /\ pc[p] = "other_get"
  /\ LET c == other_collections[idx[p]] IN
     \/ /\ Log(p, <<"get", c>>)
        /\ IF user_id[p] \in owned[c]
           THEN pc' = [pc EXCEPT ![p] = "other_delete"] /\ UNCHANGED idx
           ELSE NextOther(p)
        /\ UNCHANGED <<active, session, store, frame, auth_deleted, deleted_collections,
                       deleted_docs, pending, messages, result>>
     \/ AbsorbOther(p, <<"fail_get", c>>)

\* Mutation: the name of an optional collection is recorded without its
\* document being deleted.
OtherDelete_Keep(p) ==
  /\ pc[p] = "other_delete"
  /\ LET c == other_collections[idx[p]] IN
     \/ /\ deleted_collections' = [deleted_collections EXCEPT ![p] = Append(@, c)]
        /\ Log(p, <<"delete", c>>)
        /\ NextOther(p)
        /\ UNCHANGED <<active, session, store, frame, auth_deleted, deleted_docs, pending,
                       messages, result>>
     \/ AbsorbOther(p, <<"fail_delete", c>>)

OtherDelete(p) ==
  /\ pc[p] = "other_delete"
  /\ LET c == other_collections[idx[p]] IN
     \/ /\ owned' = [owned EXCEPT ![c] = @ \ {user_id[p]}]
        /\ deleted_collections' = [deleted_collections EXCEPT ![p] = Append(@, c)]
        /\ Log(p, <<"delete", c>>)
        /\ NextOther(p)
        /\ UNCHANGED <<active, session, authUsers, triviaRooms, availablePlayers, frame,
                       auth_deleted, deleted_docs, pending, messages, result>>
     \/ AbsorbOther(p, <<"fail_delete", c>>)

\* line 122: return deleted_collections; the orchestrator goes on to step 3.
PurgeReturn(p) ==
  /\ pc[p] = "purge_return"
  /\ IF entry[p] = "complete_user_deletion"
     THEN /\ pc' = [pc EXCEPT ![p] = "rooms_query"]
          /\ Log(p, <<"call", "delete_user_related_documents">>)
          /\ UNCHANGED result
     ELSE /\ pc' = [pc EXCEPT ![p] = "idle"]
          /\ result' = [result EXCEPT ![p] = [returned |-> deleted_collections[p]]]
          /\ UNCHANGED trace
  /\ UNCHANGED <<active, session, store, frame, locals, messages>>

delete_user_firestore_data(p) ==
  \/ UsersGet(p) \/ UsersDelete(p) \/ StatsGet(p) \/ StatsDelete(p)
  \/ OtherGet(p) \/ OtherDelete(p) \/ PurgeReturn(p)

\* --------------------------------------- delete_user_related_documents
\* db.collection(name).where(field, "==", user_id).get(); a failed query is
\* absorbed by the pair's own except clause and the next pair (or the
\* return) follows.
RefQuery(p, name, coll, here, deletePc, nextPc) ==
  /\ pc[p] = here
  /\ \/ /\ Log(p, <<"query", name>>)
        /\ pending' = [pending EXCEPT ![p] = Ascending(Matching(coll, user_id[p]))]
        /\ pc' = [pc EXCEPT ![p] = IF Matching(coll, user_id[p]) # {}
                                   THEN deletePc ELSE nextPc]
     \/ /\ CanFail(p)
        /\ Log(p, <<"fail_query", name>>)
        /\ pc' = [pc EXCEPT ![p] = nextPc]
        /\ UNCHANGED pending
  /\ UNCHANGED <<active, session, store, frame, auth_deleted, deleted_collections, idx,
                 deleted_docs, messages, result>>

\* The store after document d of a referencing collection is deleted.
Deleted(coll, d) == [coll EXCEPT ![d] = NoDoc]

\* Mutation: a failed delete leaves the function, not only the pair.
RefDeleteStep_Abort(p, name, here, nextPc) ==
  /\ pc[p] = here
  /\ \/ /\ deleted_docs' = [deleted_docs EXCEPT ![p] = @ + 1]
        /\ pending' = [pending EXCEPT ![p] = Tail(@)]
        /\ pc' = [pc EXCEPT ![p] = IF Tail(pending[p]) # <<>> THEN here ELSE nextPc]
        /\ Log(p, <<"delete", name>>)
     \/ /\ CanFail(p)
        /\ Log(p, <<"fail_delete", name>>)
        /\ pending' = [pending EXCEPT ![p] = <<>>]
        /\ pc' = [pc EXCEPT ![p] = "related_return"]
        /\ UNCHANGED deleted_docs
  /\ UNCHANGED <<active, session, authUsers, owned, frame, auth_deleted,
                 deleted_collections, idx, messages, result>>

\* One iteration of "for doc in snapshot: doc.reference.delete();
\* deleted_docs += 1".  A failed delete leaves the loop through the pair's
\* except clause, so the rest of the snapshot is not attempted.
RefDeleteStep(p, name, here, nextPc) ==
  /\ pc[p] = here
  /\ \/ /\ deleted_docs' = [deleted_docs EXCEPT ![p] = @ + 1]
        /\ pending' = [pending EXCEPT ![p] = Tail(@)]
        /\ pc' = [pc EXCEPT ![p] = IF Tail(pending[p]) # <<>> THEN here ELSE nextPc]
        /\ Log(p, <<"delete", name>>)
     \/ /\ CanFail(p)
        /\ Log(p, <<"fail_delete", name>>)
        /\ pending' = [pending EXCEPT ![p] = <<>>]
        /\ pc' = [pc EXCEPT ![p] = nextPc]
        /\ UNCHANGED deleted_docs
  /\ UNCHANGED <<active, session, authUsers, owned, frame, auth_deleted,
                 deleted_collections, idx, messages, result>>

RoomsQuery(p) ==
  RefQuery(p, "triviaRooms", triviaRooms, "rooms_query", "rooms_delete", "players_query")

RoomsDelete(p) ==
  /\ RefDeleteStep(p, "triviaRooms", "rooms_delete", "players_query")
  /\ triviaRooms' = IF deleted_docs'[p] # deleted_docs[p]
                    THEN Deleted(triviaRooms, Head(pending[p])) ELSE triviaRooms
  /\ UNCHANGED availablePlayers

PlayersQuery(p) ==
  RefQuery(p, "availablePlayers", availablePlayers, "players_query", "players_delete",
           "related_return")

PlayersDelete(p) ==
  /\ RefDeleteStep(p, "availablePlayers", "players_delete", "related_return")
  /\ availablePlayers' = IF deleted_docs'[p] # deleted_docs[p]
                         THEN Deleted(availablePlayers, Head(pending[p]))
                         ELSE availablePlayers
  /\ UNCHANGED triviaRooms

\* lines 170-175: the result of a run whose three steps returned
SuccessResult(p) ==
  [success |-> TRUE, auth_deleted |-> auth_deleted[p],
   collections_deleted |-> deleted_collections[p],
   related_docs_deleted |-> deleted_docs[p]]

\* line 151: return deleted_docs.  The handler of lines 153-155 (warning,
\* return 0) is never entered: each statement that can raise sits in a
\* pair's own try block.
RelatedReturn(p) ==
  /\ pc[p] = "related_return"
  /\ pc' = [pc EXCEPT ![p] = "idle"]
  /\ result' = [result EXCEPT ![p] =
                  IF entry[p] = "complete_user_deletion"
                  THEN SuccessResult(p)
                  ELSE [returned |-> deleted_docs[p]]]
  /\ UNCHANGED <<active, session, store, frame, locals, messages, trace>>

delete_user_related_documents(p) ==
  \/ RoomsQuery(p) \/ RoomsDelete(p) \/ PlayersQuery(p) \/ PlayersDelete(p)
  \/ RelatedReturn(p)

\* ------------------------------------------------------------------ Next
\* The account each caller works on.
Account(p) == IF p = 1 THEN "u1" ELSE "u2"

\* lines 534-566: the deletion page ends the session after a successful
\* result and offers the button again after a failed one.
MayRetry(p) == result[p] = NoResult \/ ~Returned(result[p])

\* The orchestrator, invoked on the caller's account and again after each
\* failed result.
Next ==
  \E p \in Procs :
    \/ MayRetry(p) /\ Invoke(p, "complete_user_deletion", Account(p)) /\ UNCHANGED session
    \/ delete_user_from_auth(p)
    \/ UsersGet(p)
    \/ UsersDelete(p)
    \/ StatsGet(p)
    \/ StatsDelete(p)
    \/ OtherGet(p)
    \/ OtherDelete(p)
    \/ PurgeReturn(p)
    \/ RoomsQuery(p)
    \/ RoomsDelete(p)
    \/ PlayersQuery(p)
    \/ PlayersDelete(p)
    \/ RelatedReturn(p)

\* The Collection Purger invoked on its own.
NextPurger ==
  \E p \in Procs :
    \/ Invoke(p, "delete_user_firestore_data", Account(p)) /\ UNCHANGED session
    \/ UsersGet(p)
    \/ UsersDelete(p)
    \/ StatsGet(p)
    \/ StatsDelete(p)
    \/ OtherGet(p)
    \/ OtherDelete(p)
    \/ PurgeReturn(p)

\* The Reference Purger invoked on its own.
NextRelated ==
  \E p \in Procs :
    \/ Invoke(p, "delete_user_related_documents", Account(p)) /\ UNCHANGED session
    \/ RoomsQuery(p)
    \/ RoomsDelete(p)
    \/ PlayersQuery(p)
    \/ PlayersDelete(p)
    \/ RelatedReturn(p)

Spec == Init /\ [][Next]_vars
SpecPurger == Init /\ [][NextPurger]_vars
SpecRelated == Init /\ [][NextRelated]_vars

\* One statement of a running invocation.  Every remote call is a blocking
\* call that returns or raises, so a run that has a next statement takes it.
Step(p) ==
  \/ delete_user_from_auth(p)
  \/ delete_user_firestore_data(p)
  \/ delete_user_related_documents(p)

\* The runs on an account that starts with all its owned documents.
InitLive ==
  /\ Init
  /\ \A c \in SeqToSet(OwnedCollections) : "u1" \in owned[c]

SpecLive == InitLive /\ [][Next]_vars /\ \A p \in Procs : WF_vars(Step(p))

\* Two callers, each deleting its own, fully populated account once, their
\* remote calls interleaved in any order.  At most MaxConcFailures remote
\* calls fail in the two runs together.
InitConc ==
  /\ active = {1, 2}
  /\ InitStore
  /\ "u1" \in authUsers
  /\ \A c \in SeqToSet(OwnedCollections) : "u1" \in owned[c]
  /\ triviaRooms[1] = "u1"
  /\ availablePlayers[1] = "u1"
  /\ InitProcs

NextConc ==
  \E p \in Procs :
    \/ /\ entry[p] = "none"
       /\ Invoke(p, "complete_user_deletion", Account(p))
       /\ UNCHANGED session
    \/ delete_user_from_auth(p)
    \/ UsersGet(p)
    \/ UsersDelete(p)
    \/ StatsGet(p)
    \/ StatsDelete(p)
    \/ OtherGet(p)
    \/ OtherDelete(p)
    \/ PurgeReturn(p)
    \/ RoomsQuery(p)
    \/ RoomsDelete(p)
    \/ PlayersQuery(p)
    \/ PlayersDelete(p)
    \/ RelatedReturn(p)

SpecConc == InitConc /\ [][NextConc]_vars

\* --------------------------------------------------------------- session
\* JSON values of a response body; a body that is not JSON is NotJson.
JStr(v) == [type |-> "string", value |-> v]
JObj(f) == [type |-> "object", members |-> f]
NotJson == [type |-> "text"]
EmptyMembers == [k \in {} |-> JStr("")]

Email(u) == IF u = "u1" THEN "u1@mail" ELSE "u2@mail"
Token(u) == IF u = "u1" THEN "token-u1" ELSE "token-u2"

\* What requests.post of line 43 can bring back: an exception (raises is its
\* description), or a response with a status code and a body.  The service
\* answers 200 with localId, email and idToken for an identity it knows.
Answer(status, body) == [raises |-> "", status |-> status, body |-> body]

Responses(known) ==
  {Answer(200, JObj([localId |-> JStr(u), email |-> JStr(Email(u)),
                     idToken |-> JStr(Token(u))])) : u \in known}
  \cup {Answer(400, JObj([error |-> JObj([code |-> JStr("400"), message |-> JStr(m)])])) :
          m \in {"INVALID_PASSWORD", "EMAIL_NOT_FOUND"}}
  \cup {Answer(400, JObj([error |-> JObj([code |-> JStr("400")])])),
        Answer(403, JObj(EmptyMembers)),
        Answer(401, JObj([error |-> JStr("unauthorized")])),
        Answer(502, NotJson),
        Answer(200, NotJson),
        [raises |-> "Connection refused", status |-> 0, body |-> NotJson]}

\* dict.get(key, default) on a parsed JSON object.
Get(obj, key, default) ==
  IF key \in DOMAIN obj.members THEN obj.members[key] ELSE default

AuthFailure(msg) == [success |-> FALSE, error |-> msg]

\* Mutation: the generic message is lost (the default of line 56 is empty).
authenticate_user_NoDefault(resp) ==
  IF resp.raises # "" THEN AuthFailure(resp.raises)
  ELSE IF resp.body.type # "object" THEN AuthFailure("Expecting value: line 1 column 1 (char 0)")
  ELSE IF resp.status = 200
  THEN [success |-> TRUE, uid |-> resp.body.members["localId"].value,
        email |-> resp.body.members["email"].value,
        token |-> resp.body.members["idToken"].value]
  ELSE LET error == Get(resp.body, "error", JObj(EmptyMembers))
       IN IF error.type # "object"
          THEN AuthFailure("'str' object has no attribute 'get'")
          ELSE AuthFailure(Get(error, "message", JStr("")).value)

\* lines 35-65, as a function of the one response: the except clause of
\* lines 61-65 turns a raised requests.post, a body response.json() cannot
\* parse and an "error" member that is no object into a failure carrying the
\* exception's description.
authenticate_user(resp) ==
  IF resp.raises # "" THEN AuthFailure(resp.raises)
  ELSE IF resp.body.type # "object" THEN AuthFailure("Expecting value: line 1 column 1 (char 0)")
  ELSE IF resp.status = 200
  THEN [success |-> TRUE, uid |-> resp.body.members["localId"].value,
        email |-> resp.body.members["email"].value,
        token |-> resp.body.members["idToken"].value]
  ELSE LET error == Get(resp.body, "error", JObj(EmptyMembers))
       IN IF error.type # "object"
          THEN AuthFailure("'str' object has no attribute 'get'")
          ELSE AuthFailure(Get(error, "message", JStr("Authentication failed")).value)

\* The four keys every logout path deletes.
Credentials == {"authenticated", "user_uid", "user_email", "user_token"}

Del(ss, keys) == [k \in DOMAIN ss \ keys |-> ss[k]]
Put(ss, new) == [k \in DOMAIN ss \cup DOMAIN new |-> IF k \in DOMAIN new THEN new[k] ELSE ss[k]]

\* line 612: st.session_state.get('authenticated', False)
Authenticated(ss) == "authenticated" \in DOMAIN ss /\ ss["authenticated"]

\* Mutation: the login stores the session whatever authenticate_user returned.
AfterLogin_Always(ss, r) ==
  Put(ss, [authenticated |-> TRUE,
           user_uid |-> IF r.success THEN r.uid ELSE "u1",
           user_email |-> IF r.success THEN r.email ELSE Email("u1"),
           user_token |-> IF r.success THEN r.token ELSE Token("u1")])

\* lines 412-420: the session is stored only after a successful result.
AfterLogin(ss, r) ==
  IF r.success
  THEN Put(ss, [authenticated |-> TRUE, user_uid |-> r.uid,
                user_email |-> r.email, user_token |-> r.token])
  ELSE ss

\* Mutation: the session survives a successful deletion.
AfterDeletion_Keep(ss, r) == ss

\* lines 534-566: the credentials are deleted after a successful result and
\* kept after a failed one.
AfterDeletion(ss, r) == IF r.success THEN Del(ss, Credentials) ELSE ss

\* A script run handles one widget event and runs to its end or to its
\* st.rerun(); the next event is handled by the next run.
Handled(h) == handler' = h /\ ui' = "ready"

\* A script run that does not reach authenticate_user.
NoLogin == posted' = <<>> /\ auth_result' = NoResult /\ UNCHANGED <<last_uid, deletions>>

Frozen == UNCHANGED <<active, store, pc, frame, locals, result, messages, trace>>

\* The script is idle and waits for the next widget event; the session is
\* followed until its MaxDeletions-th deletion has returned.
Ready == ui = "ready" /\ deletions < MaxDeletions

\* lines 339-341: "Delete Account" of the home page.
HomeDeleteAccount ==
  /\ Ready
  /\ session_state["page"] = "home"
  /\ session_state' = Put(session_state, [page |-> "deletion"])
  /\ Handled("home_delete_account")
  /\ NoLogin
  /\ Frozen

\* lines 575-581: "Home" of the sidebar.
SidebarHome ==
  /\ Ready
  /\ session_state' = Del(Put(session_state, [page |-> "home"]), Credentials)
  /\ Handled("sidebar_home")
  /\ NoLogin
  /\ Frozen

\* lines 583-585: "Delete Account" of the sidebar.
SidebarDeleteAccount ==
  /\ Ready
  /\ session_state' = Put(session_state, [page |-> "deletion"])
  /\ Handled("sidebar_delete_account")
  /\ NoLogin
  /\ Frozen

\* lines 404-407: the login form submitted with an empty field.
LoginIncomplete ==
  /\ Ready
  /\ session_state["page"] = "deletion"
  /\ ~Authenticated(session_state)
  /\ \E email \in {"", "u1@mail"}, password \in {"", "secret"} :
       email = "" \/ password = ""
  /\ Handled("login_incomplete")
  /\ NoLogin
  /\ UNCHANGED session_state
  /\ Frozen

\* lines 404-420: the login form submitted with both fields; the one
\* request of authenticate_user and what the page does with the result.
LoginSubmit ==
  /\ Ready
  /\ session_state["page"] = "deletion"
  /\ ~Authenticated(session_state)
  /\ \E resp \in Responses(authUsers) :
       LET r == authenticate_user(resp) IN
       /\ posted' = <<resp>>
       /\ auth_result' = r
       /\ last_uid' = IF r.success THEN r.uid ELSE last_uid
       /\ session_state' = AfterLogin(session_state, r)
       /\ Handled(IF r.success THEN "login_ok" ELSE "login_failed")
  /\ UNCHANGED deletions
  /\ Frozen

\* lines 472-478: "Back to Home" of the deletion page.
BackToHome ==
  /\ Ready
  /\ session_state["page"] = "deletion"
  /\ Authenticated(session_state)
  /\ session_state' = Del(Put(session_state, [page |-> "home"]), Credentials)
  /\ Handled("back_to_home")
  /\ NoLogin
  /\ Frozen

\* lines 481-485: "Logout" of the deletion page.
Logout ==
  /\ Ready
  /\ session_state["page"] = "deletion"
  /\ Authenticated(session_state)
  /\ session_state' = Del(session_state, Credentials)
  /\ Handled("logout")
  /\ NoLogin
  /\ Frozen

\* lines 525-532: the delete button calls complete_user_deletion with the
\* identifier of the session.
DeleteButton ==
  /\ Ready
  /\ session_state["page"] = "deletion"
  /\ Authenticated(session_state)
  /\ Invoke(1, "complete_user_deletion", session_state["user_uid"])
  /\ ui' = "deleting"
  /\ handler' = "delete"
  /\ deletions' = deletions + 1
  /\ posted' = <<>> /\ auth_result' = NoResult /\ UNCHANGED last_uid
  /\ UNCHANGED session_state

\* lines 534-566: the call has returned its result.
DeletionReturned ==
  /\ ui = "deleting"
  /\ pc[1] = "idle"
  /\ session_state' = AfterDeletion(session_state, result[1])
  /\ Handled(IF result[1].success THEN "delete_ok" ELSE "delete_failed")
  /\ NoLogin
  /\ Frozen

\* One session, deleting accounts that start fully populated.
InitSession ==
  /\ active = {1}
  /\ InitStore
  /\ "u1" \in authUsers
  /\ \A c \in SeqToSet(OwnedCollections) : "u1" \in owned[c]
  /\ triviaRooms = RefDocs(1)
  /\ availablePlayers = RefDocs(1)
  /\ InitProcs

NextSession ==
  \/ HomeDeleteAccount
  \/ SidebarHome
  \/ SidebarDeleteAccount
  \/ LoginIncomplete
  \/ LoginSubmit
  \/ BackToHome
  \/ Logout
  \/ DeleteButton
  \/ DeletionReturned
  \/ Step(1)

SpecSession == InitSession /\ [][NextSession]_vars

\* ================================================================ claims
\* The documents of a referencing collection whose field is uid.
DocsOf(coll, uid) == {d \in DocIds : coll[d] = uid}
Done(p) == pc[p] = "idle" /\ result[p] # NoResult
Orchestrated(p) == entry[p] = "complete_user_deletion"
Succeeded(r) == "success" \in DOMAIN r /\ r.success
Failed(r) == "success" \in DOMAIN r /\ ~r.success
Raised(p) == <<"raise", "delete_user_firestore_data">> \in trace[p]
Attempted(p, c) == <<"get", c>> \in trace[p] \/ <<"fail_get", c>> \in trace[p]
FailedOn(p, c) == <<"fail_get", c>> \in trace[p] \/ <<"fail_delete", c>> \in trace[p]
Touched(p, c) ==
  \E k \in {"get", "delete", "query", "fail_get", "fail_delete", "fail_query"} :
    <<k, c>> \in trace[p]
CoreFailure(p) == \E c \in SeqToSet(CoreCollections) : FailedOn(p, c)
RefFailure(p) ==
  \E c \in SeqToSet(RefCollections) :
    <<"fail_query", c>> \in trace[p] \/ <<"fail_delete", c>> \in trace[p]
RefsUntouched(p) ==
  /\ triviaRooms = pre[p].triviaRooms
  /\ availablePlayers = pre[p].availablePlayers
  /\ \A c \in SeqToSet(RefCollections) : ~Touched(p, c)
InRelated(p) ==
  pc[p] \in {"rooms_query", "rooms_delete", "players_query", "players_delete",
             "related_return"}
Position(c) == CHOOSE i \in 1..Len(OwnedCollections) : OwnedCollections[i] = c

\* C1: whenever the owned-data purge of a complete_user_deletion run has
\* raised, the run has ended with success = False, the reference purger was
\* not invoked in it, and no referencing document was queried or deleted.
C1_FatalPurgeSkipsReferences ==
  \A p \in Procs :
    (Orchestrated(p) /\ Raised(p)) =>
      /\ Done(p)
      /\ Failed(result[p])
      /\ <<"call", "delete_user_related_documents">> \notin trace[p]
      /\ ~InRelated(p)
      /\ RefsUntouched(p)

C1_Witness ==
  \E p \in Procs :
    /\ Orchestrated(p) /\ Raised(p) /\ Done(p)
    /\ DocsOf(triviaRooms, user_id[p]) # {}
    /\ DocsOf(availablePlayers, user_id[p]) # {}

\* C2: a finished complete_user_deletion run reports success = False exactly
\* when a users or userStatistics step failed; failures of the identity
\* provider, of the optional collections and of the reference purge leave
\* success = True.
C2_SuccessUnlessFatal ==
  \A p \in Procs :
    (Orchestrated(p) /\ Done(p)) =>
      /\ Succeeded(result[p]) \/ Failed(result[p])
      /\ Failed(result[p]) <=> CoreFailure(p)
      /\ Failed(result[p]) <=> Raised(p)

C2_Witness ==
  \E p \in Procs :
    /\ Orchestrated(p) /\ Done(p) /\ Succeeded(result[p])
    /\ \E c \in SeqToSet(other_collections) : FailedOn(p, c)
    /\ RefFailure(p) \/ <<"fail_auth", "auth">> \in trace[p]

\* C3: once step 1 of a complete_user_deletion run is over, auth_deleted is
\* False exactly when the provider failed with an error other than "not
\* found" (a delete or a not-found answer gives True and leaves no identity);
\* the owned-data purge was invoked in each case, and a run that ends without
\* a fatal error went through the reference purge and reports that flag.
C3_AuthOutcomeNeverAborts ==
  \A p \in Procs :
    (Orchestrated(p) /\ pc[p] # "auth_delete") =>
      LET failed == <<"fail_auth", "auth">> \in trace[p] IN
      /\ auth_deleted[p] = ~failed
      /\ auth_deleted[p] => user_id[p] \notin authUsers
      /\ (user_id[p] \notin pre[p].authUsers /\ ~failed) =>
            "auth_user_not_found" \in messages[p]
      /\ <<"call", "delete_user_firestore_data">> \in trace[p]
      /\ pc[p] # "users_get" => Attempted(p, "users")
      /\ (Done(p) /\ ~Raised(p)) =>
            /\ <<"call", "delete_user_related_documents">> \in trace[p]
            /\ Touched(p, "triviaRooms") /\ Touched(p, "availablePlayers")
            /\ Succeeded(result[p])
            /\ result[p].auth_deleted = ~failed

C3_Witness ==
  \E p \in Procs :
    /\ Orchestrated(p) /\ Done(p) /\ Succeeded(result[p])
    /\ user_id[p] \notin pre[p].authUsers
    /\ result[p].auth_deleted
    /\ result[p].collections_deleted # <<>>
    /\ result[p].related_docs_deleted > 0

C3_WitnessProviderError ==
  \E p \in Procs :
    /\ Orchestrated(p) /\ Done(p) /\ Succeeded(result[p])
    /\ ~result[p].auth_deleted
    /\ result[p].collections_deleted # <<>>
    /\ result[p].related_docs_deleted > 0

\* C4: a failed fetch or delete of the users or userStatistics document ends
\* the purge at once: no later collection is checked or changed, and the
\* complete_user_deletion result is the failure carrying the raised error.
C4_CoreFailureIsFatal ==
  \A p \in Procs : \A c \in SeqToSet(CoreCollections) :
    \A ev \in {<<"fail_get", c>>, <<"fail_delete", c>>} :
      (Orchestrated(p) /\ ev \in trace[p]) =>
        /\ Done(p)
        /\ Raised(p)
        /\ result[p] = [success |-> FALSE,
                        error |-> <<"Failed to delete user data from Firestore: ", ev>>]
        /\ \A later \in SeqToSet(OwnedCollections) :
             Position(later) > Position(c) =>
               /\ ~Touched(p, later)
               /\ owned[later] = pre[p].owned[later]
        /\ ev[1] = "fail_get" => owned[c] = pre[p].owned[c]
        /\ user_id[p] \in pre[p].owned[c] => user_id[p] \in owned[c]

C4_Witness ==
  \E p \in Procs :
    /\ Orchestrated(p) /\ Done(p)
    /\ <<"fail_delete", "userStatistics">> \in trace[p]
    /\ "users" \in SeqToSet(deleted_collections[p])
    /\ \E later \in SeqToSet(other_collections) : user_id[p] \in owned[later]

Purging(p) == entry[p] = "delete_user_firestore_data"
Present(st, uid) == {c \in SeqToSet(OwnedCollections) : uid \in st[c]}
ReturnedValue(p) == "returned" \in DOMAIN result[p]

\* C5: in delete_user_firestore_data a failed fetch or delete of an optional
\* collection is absorbed: no fatal error is raised for it, its name is not
\* recorded as deleted, and the call returns normally after every optional
\* collection has been attempted.
C5_OptionalFailureAbsorbed ==
  \A p \in Procs : \A c \in SeqToSet(other_collections) :
    (Purging(p) /\ FailedOn(p, c)) =>
      /\ ~Raised(p)
      /\ c \notin SeqToSet(deleted_collections[p])
      /\ owned[c] = pre[p].owned[c]
      /\ pc[p] = "idle" =>
           /\ ReturnedValue(p)
           /\ c \notin SeqToSet(result[p].returned)
           /\ \A o \in SeqToSet(other_collections) : Attempted(p, o)

C5_Witness ==
  \E p \in Procs :
    /\ Purging(p) /\ Done(p) /\ ReturnedValue(p)
    /\ FailedOn(p, "userPreferences")
    /\ user_id[p] \in owned["userPreferences"]
    /\ SeqToSet(result[p].returned) = {"users", "gameHistory", "userAchievements"}

\* C6 as stated: of two consecutive delete_user_firestore_data calls on one
\* identifier, the first returns a subset of the collections that held a
\* document and the second returns an empty list without error.
C6_SecondCallAlwaysEmpty ==
  \A p \in Procs :
    (Purging(p) /\ Done(p)) =>
      /\ ReturnedValue(p) =>
           SeqToSet(result[p].returned) \subseteq Present(pre[p].owned, user_id[p])
      /\ (prev[p] # NoResult /\ prev[p].user_id = user_id[p] /\ prev[p].returned) =>
           result[p] = [returned |-> <<>>]

\* C6 amended: the first call returns a subset of the collections that held
\* a document; when no fetch or delete failed in the first call, the second
\* call deletes nothing and, unless its own fetch of users or userStatistics
\* fails, returns an empty list.
C6_SecondCallEmptyAfterCleanFirst ==
  \A p \in Procs :
    (Purging(p) /\ Done(p)) =>
      /\ ReturnedValue(p) =>
           SeqToSet(result[p].returned) \subseteq Present(pre[p].owned, user_id[p])
      /\ (prev[p] # NoResult /\ prev[p].user_id = user_id[p] /\ prev[p].returned
          /\ prev[p].clean) =>
           /\ store = <<pre[p].authUsers, pre[p].owned, pre[p].triviaRooms,
                        pre[p].availablePlayers>>
           /\ CoreFailure(p) \/ result[p] = [returned |-> <<>>]

C6_Witness ==
  \E p \in Procs :
    /\ Purging(p) /\ Done(p)
    /\ prev[p] # NoResult /\ prev[p].user_id = user_id[p]
    /\ prev[p].returned /\ prev[p].clean /\ prev[p].deleted
    /\ result[p] = [returned |-> <<>>]
    /\ Failures(trace[p]) = {}

\* C7: a complete_user_deletion run that failed fatally left every
\* referencing document as it was; a failure-free run on the same identifier
\* after such a run reports success = True and auth_deleted = True and leaves
\* no identity, no owned document and no referencing document of it.
C7_RetryAfterFatal ==
  \A p \in Procs :
    (Orchestrated(p) /\ Done(p)) =>
      /\ Failed(result[p]) => RefsUntouched(p)
      /\ (prev[p] # NoResult /\ ~prev[p].returned /\ prev[p].user_id = user_id[p]
          /\ Failures(trace[p]) = {}) =>
           /\ Succeeded(result[p])
           /\ result[p].auth_deleted
           /\ user_id[p] \notin authUsers
           /\ Present(owned, user_id[p]) = {}
           /\ DocsOf(triviaRooms, user_id[p]) = {}
           /\ DocsOf(availablePlayers, user_id[p]) = {}

C7_Witness ==
  \E p \in Procs :
    /\ Orchestrated(p) /\ Done(p) /\ Succeeded(result[p])
    /\ prev[p] # NoResult /\ ~prev[p].returned /\ prev[p].deleted
    /\ Failures(trace[p]) = {}
    /\ user_id[p] \notin pre[p].authUsers
    /\ "users" \notin Present(pre[p].owned, user_id[p])
    /\ "userStatistics" \in Present(pre[p].owned, user_id[p])
    /\ DocsOf(pre[p].triviaRooms, user_id[p]) # {}

Referencing(st, uid) ==
  Cardinality(DocsOf(st.triviaRooms, uid)) + Cardinality(DocsOf(st.availablePlayers, uid))
Relating(p) == entry[p] = "delete_user_related_documents"

\* C8: the count delete_user_related_documents returns is at most the number
\* of documents that referenced the identifier before the call, and a call in
\* which no query and no delete failed leaves no such document.
C8_CountBoundedAndComplete ==
  \A p \in Procs :
    (Relating(p) /\ Done(p)) =>
      /\ ReturnedValue(p)
      /\ result[p].returned <= Referencing(pre[p], user_id[p])
      /\ Failures(trace[p]) = {} => Referencing(Snapshot, user_id[p]) = 0

C8_Witness ==
  \E p \in Procs :
    /\ Relating(p) /\ Done(p)
    /\ Failures(trace[p]) = {}
    /\ result[p].returned >= 2
    /\ DocsOf(pre[p].triviaRooms, user_id[p]) # {}
    /\ DocsOf(pre[p].availablePlayers, user_id[p]) # {}

\* C9: a failed query or delete in triviaRooms does not keep
\* delete_user_related_documents from querying availablePlayers and deleting
\* what it finds, and the returned count is the number of documents the call
\* removed from the two collections.
C9_PairsIsolated ==
  \A p \in Procs :
    Relating(p) =>
      /\ pc[p] \in {"players_delete", "related_return", "idle"} =>
           \/ <<"query", "availablePlayers">> \in trace[p]
           \/ <<"fail_query", "availablePlayers">> \in trace[p]
      /\ Done(p) =>
           /\ result[p].returned =
                Referencing(pre[p], user_id[p]) - Referencing(Snapshot, user_id[p])
           /\ (<<"query", "availablePlayers">> \in trace[p]
               /\ <<"fail_delete", "availablePlayers">> \notin trace[p]) =>
                DocsOf(availablePlayers, user_id[p]) = {}
      /\ \A d \in DocIds :
           /\ triviaRooms[d] \in {pre[p].triviaRooms[d], NoDoc}
           /\ availablePlayers[d] \in {pre[p].availablePlayers[d], NoDoc}
           /\ pre[p].triviaRooms[d] # user_id[p] => triviaRooms[d] = pre[p].triviaRooms[d]
           /\ pre[p].availablePlayers[d] # user_id[p] =>
                availablePlayers[d] = pre[p].availablePlayers[d]

C9_Witness ==
  \E p \in Procs :
    /\ Relating(p) /\ Done(p)
    /\ <<"fail_delete", "triviaRooms">> \in trace[p]
    /\ DocsOf(triviaRooms, user_id[p]) # {}
    /\ DocsOf(pre[p].availablePlayers, user_id[p]) # {}
    /\ DocsOf(availablePlayers, user_id[p]) = {}
    /\ result[p] = [returned |-> 1]

\* C10 as stated: a query or delete that failed inside
\* delete_user_related_documents is reported to the caller as a warning,
\* together with the count of the documents deleted.
C10_FailureReportedAsWarning ==
  \A p \in Procs :
    (Relating(p) /\ Done(p) /\ RefFailure(p)) =>
      /\ "related_documents_warning" \in messages[p]
      /\ result[p].returned =
           Referencing(pre[p], user_id[p]) - Referencing(Snapshot, user_id[p])

\* The owned collections, in the order of the code, that satisfy Keep.
InOrder(Keep(_)) == SelectSeq(OwnedCollections, Keep)

\* C11: a complete_user_deletion run in which no remote call failed ends
\* with success = True and auth_deleted = True, leaves no owned and no
\* referencing document of the identifier, lists exactly the owned
\* collections that held a document, in the order of the code, and counts
\* exactly the referencing documents there were.
C11_FailureFreeRunDeletesEverything ==
  \A p \in Procs :
    (Orchestrated(p) /\ Done(p) /\ Failures(trace[p]) = {}) =>
      LET held(c) == user_id[p] \in pre[p].owned[c] IN
      /\ result[p] = [success |-> TRUE, auth_deleted |-> TRUE,
                      collections_deleted |-> InOrder(held),
                      related_docs_deleted |-> Referencing(pre[p], user_id[p])]
      /\ Present(owned, user_id[p]) = {}
      /\ Referencing(Snapshot, user_id[p]) = 0
      /\ user_id[p] \notin authUsers

C11_Witness ==
  \E p \in Procs :
    /\ Orchestrated(p) /\ Done(p) /\ Failures(trace[p]) = {}
    /\ Present(pre[p].owned, user_id[p]) = {"users", "userStatistics", "userPreferences"}
    /\ DocsOf(pre[p].triviaRooms, user_id[p]) = {1}
    /\ DocsOf(pre[p].availablePlayers, user_id[p]) = {}
    /\ result[p].collections_deleted = <<"users", "userStatistics", "userPreferences">>
    /\ result[p].related_docs_deleted = 1

C11_WitnessNoDocuments ==
  \E p \in Procs :
    /\ Orchestrated(p) /\ Done(p) /\ Failures(trace[p]) = {}
    /\ prev[p] = NoResult
    /\ Present(pre[p].owned, user_id[p]) = {}
    /\ Referencing(pre[p], user_id[p]) = 0
    /\ result[p] = [success |-> TRUE, auth_deleted |-> TRUE,
                    collections_deleted |-> <<>>, related_docs_deleted |-> 0]

\* C12: at every point of a delete_user_firestore_data call the list built
\* so far holds, in the order of the code and without repetition, exactly
\* the collections whose document was found and deleted: each listed
\* document existed at entry and is gone, and a document that was absent is
\* neither deleted nor listed.  The returned list is that list.
C12_ListIsOrderedRecordOfDeletes ==
  \A p \in Procs :
    Purging(p) =>
      LET gone(c) == user_id[p] \in pre[p].owned[c] /\ user_id[p] \notin owned[c]
          deleted(c) == <<"delete", c>> \in trace[p]
      IN
      /\ deleted_collections[p] = InOrder(gone)
      /\ deleted_collections[p] = InOrder(deleted)
      /\ \A c \in SeqToSet(OwnedCollections) :
           /\ deleted(c) => <<"get", c>> \in trace[p]
           /\ user_id[p] \notin pre[p].owned[c] =>
                ~deleted(c) /\ <<"fail_delete", c>> \notin trace[p]
      /\ (Done(p) /\ ReturnedValue(p)) => result[p].returned = deleted_collections[p]

C12_Witness ==
  \E p \in Procs :
    /\ Purging(p) /\ Done(p) /\ ReturnedValue(p)
    /\ Present(pre[p].owned, user_id[p]) =
         {"users", "userPreferences", "gameHistory", "userAchievements"}
    /\ <<"fail_delete", "gameHistory">> \in trace[p]
    /\ result[p].returned = <<"users", "userPreferences", "userAchievements">>

StoreTouched(p) ==
  \E c \in SeqToSet(OwnedCollections) \cup SeqToSet(RefCollections) : Touched(p, c)
Aborted(p) == Orchestrated(p) /\ Done(p) /\ Failed(result[p])
BetweenPhases(p) == Orchestrated(p) /\ pc[p] = "users_get"

\* C16 as stated: the identity-provider call precedes every document-store
\* call, and a run aborted in phase 2, or stopped between phases 1 and 2, is
\* in a state where the identity is removed while the users or the
\* userStatistics document of the identifier still exists.
C16_AbortAlwaysLeavesOrphan ==
  \A p \in Procs :
    /\ (Orchestrated(p) /\ pc[p] = "auth_delete") => ~StoreTouched(p)
    /\ (Aborted(p) \/ BetweenPhases(p)) =>
         /\ user_id[p] \notin authUsers
         /\ user_id[p] \in owned["users"] \/ user_id[p] \in owned["userStatistics"]

\* C16 amended: the identity-provider call precedes every document-store
\* call; once it has returned without a provider error the identity stays
\* removed for the rest of the run; a run stopped between the phases has
\* changed no document, and a run aborted in phase 2 has left the
\* userStatistics document as it was, and the users document too when the
\* abort came at the users step.
C16_IdentityRemovedBeforeData ==
  \A p \in Procs :
    Orchestrated(p) =>
      /\ pc[p] = "auth_delete" =>
           ~StoreTouched(p) /\ owned = pre[p].owned /\ authUsers = pre[p].authUsers
      /\ StoreTouched(p) =>
           \/ <<"fail_auth", "auth">> \in trace[p]
           \/ user_id[p] \notin authUsers
      /\ (pc[p] # "auth_delete" /\ <<"fail_auth", "auth">> \notin trace[p]) =>
           user_id[p] \notin authUsers
      /\ BetweenPhases(p) => owned = pre[p].owned
      /\ Aborted(p) =>
           /\ owned["userStatistics"] = pre[p].owned["userStatistics"]
           /\ FailedOn(p, "users") => owned["users"] = pre[p].owned["users"]
           /\ \A c \in SeqToSet(other_collections) : owned[c] = pre[p].owned[c]

C16_Witness ==
  \E p \in Procs :
    /\ Aborted(p)
    /\ user_id[p] \in pre[p].authUsers
    /\ user_id[p] \notin authUsers
    /\ user_id[p] \in owned["users"]
    /\ user_id[p] \in owned["userStatistics"]

\* C17: a failed complete_user_deletion result has the success flag and the
\* error description and nothing else, also when the run had removed the
\* identity and deleted the users document before it failed.
C17_FailedResultHidesPartialEffects ==
  \A p \in Procs :
    Aborted(p) =>
      /\ DOMAIN result[p] = {"success", "error"}
      /\ result[p].error[1] = "Failed to delete user data from Firestore: "
      /\ result[p].error[2] \in Failures(trace[p])

C17_Witness ==
  \E p \in Procs :
    /\ Aborted(p)
    /\ user_id[p] \in pre[p].authUsers /\ user_id[p] \notin authUsers
    /\ user_id[p] \in pre[p].owned["users"] /\ user_id[p] \notin owned["users"]
    /\ DOMAIN result[p] = {"success", "error"}

\* C18: complete_user_deletion never hands an error to its caller and every
\* run ends: what it leaves is a result with the success flag, and a run
\* that has started reaches that result, whichever remote calls fail.
\* How far a run has got: the steps of the three phases in program order.
Progress(at, i, left) ==
  CASE at = "auth_delete" -> 10
    [] at = "users_get" -> 20
    [] at = "users_delete" -> 30
    [] at = "stats_get" -> 40
    [] at = "stats_delete" -> 50
    [] at = "other_get" -> 60 + 2 * i
    [] at = "other_delete" -> 61 + 2 * i
    [] at = "purge_return" -> 80
    [] at = "rooms_query" -> 90
    [] at = "rooms_delete" -> 110 - left
    [] at = "players_query" -> 120
    [] at = "players_delete" -> 140 - left
    [] at = "related_return" -> 150
    [] at = "idle" -> 200

C18_EveryRunEndsWithAResult ==
  /\ [][\A p \in Procs :
         pc[p] # "idle" =>
           Progress(pc'[p], idx'[p], Len(pending'[p])) >
             Progress(pc[p], idx[p], Len(pending[p]))]_vars
  /\ [](\A p \in Procs :
          (Orchestrated(p) /\ pc[p] = "idle") =>
             /\ "success" \in DOMAIN result[p]
             /\ "raised" \notin DOMAIN result[p])
  /\ \A p \in Procs :
       (Orchestrated(p) /\ pc[p] # "idle") ~> (Done(p) /\ "success" \in DOMAIN result[p])

C18_Witness ==
  \E p \in Procs :
    /\ Orchestrated(p) /\ Done(p) /\ Succeeded(result[p])
    /\ Cardinality(Failures(trace[p])) = MaxFailures
    /\ <<"fail_auth", "auth">> \in trace[p]
    /\ RefFailure(p)

\* What a finished complete_user_deletion run of caller p returns, as a
\* function of the documents of its own identifier at entry, of the remote
\* calls of its own that failed, and of the documents of its own it removed.
OwnResult(p) ==
  LET me == Account(p)
      deleted(c) == <<"delete", c>> \in trace[p]
      fatal == CHOOSE ev \in Failures(trace[p]) :
                 ev[2] \in SeqToSet(CoreCollections)
  IN IF CoreFailure(p)
     THEN [success |-> FALSE,
           error |-> <<"Failed to delete user data from Firestore: ", fatal>>]
     ELSE [success |-> TRUE,
           auth_deleted |-> <<"fail_auth", "auth">> \notin trace[p],
           collections_deleted |-> InOrder(deleted),
           related_docs_deleted |->
             Referencing(pre[p], me) - Referencing(Snapshot, me)]

\* C14: while two complete_user_deletion runs for different identifiers
\* interleave, the identity and every document of an identifier change only
\* through the deletes of the run for that identifier, and each run returns
\* the result its own documents and its own failed calls determine.
C14_RunsOnDistinctUsersIndependent ==
  \A p \in Procs :
    LET me == Account(p)
        removedIdentity ==
          /\ entry[p] # "none" /\ pc[p] # "auth_delete"
          /\ <<"fail_auth", "auth">> \notin trace[p]
    IN
    /\ entry[p] # "none" => user_id[p] = me
    /\ me \in authUsers <=> (me \in pre[p].authUsers /\ ~removedIdentity)
    /\ \A c \in SeqToSet(OwnedCollections) :
         me \in owned[c] <=> (me \in pre[p].owned[c] /\ <<"delete", c>> \notin trace[p])
    /\ \A d \in DocIds :
         /\ pre[p].triviaRooms[d] = me => triviaRooms[d] \in {me, NoDoc}
         /\ pre[p].triviaRooms[d] # me => triviaRooms[d] # me
         /\ pre[p].availablePlayers[d] = me => availablePlayers[d] \in {me, NoDoc}
         /\ pre[p].availablePlayers[d] # me => availablePlayers[d] # me
    /\ Referencing(pre[p], me) - Referencing(Snapshot, me) = deleted_docs[p]
    /\ Done(p) => result[p] = OwnResult(p)

C14_Witness ==
  /\ \A p \in Procs : Done(p) /\ Succeeded(result[p])
  /\ pre[2].owned["users"] = {"u2"}
  /\ pre[2].owned["userAchievements"] = {"u1", "u2"}
  /\ pre[2].triviaRooms[1] = "u1"
  /\ result[1].related_docs_deleted = MaxRefDocs
  /\ result[2].related_docs_deleted = 2
  /\ Len(result[1].collections_deleted) = 5
  /\ Len(result[2].collections_deleted) = 5

\* The body is a JSON object with an "error" object that has a "message".
NestedMessage(body) ==
  /\ body.type = "object"
  /\ "error" \in DOMAIN body.members
  /\ body.members["error"].type = "object"
  /\ "message" \in DOMAIN body.members["error"].members

\* The body is a JSON object whose "error" member, if any, is an object.
ErrorReadable(body) ==
  /\ body.type = "object"
  /\ "error" \in DOMAIN body.members => body.members["error"].type = "object"

Answered200(resp) == resp.raises = "" /\ resp.status = 200
NoCredentials(ss) == DOMAIN ss \cap Credentials = {}

\* C13: complete_user_deletion runs only inside the delete handler of an
\* authenticated session, on the identifier the session holds, which is the
\* one the most recent successful authenticate_user returned; a failed
\* authentication leaves the session unauthenticated.
C13_DeletionOnlyForAuthenticatedUser ==
  /\ pc[1] # "idle" => ui = "deleting"
  /\ ui = "deleting" =>
       /\ entry[1] = "complete_user_deletion"
       /\ Authenticated(session_state)
       /\ user_id[1] = session_state["user_uid"]
       /\ user_id[1] = last_uid
  /\ Authenticated(session_state) =>
       /\ last_uid \in Uids
       /\ session_state["user_uid"] = last_uid
  /\ handler = "login_failed" =>
       /\ ~auth_result.success
       /\ ~Authenticated(session_state)
       /\ NoCredentials(session_state)
  /\ handler = "login_ok" =>
       /\ auth_result.success
       /\ last_uid = auth_result.uid

C13_Witness ==
  /\ ui = "deleting"
  /\ deletions = 2
  /\ user_id[1] = "u2"
  /\ prev[1] # NoResult
  /\ prev[1].user_id = "u1"
  /\ pc[1] = "rooms_query"

\* C15 as stated: one remote call; success only on HTTP 200; a failure with a
\* non-empty message otherwise, which is "Authentication failed" whenever the
\* body of a non-200 response has no nested error message.
C15_GenericMessageWithoutNestedMessage ==
  auth_result # NoResult =>
    /\ Len(posted) = 1
    /\ auth_result.success => Answered200(posted[1])
    /\ ~Answered200(posted[1]) => (~auth_result.success /\ auth_result.error # "")
    /\ (posted[1].raises = "" /\ posted[1].status # 200 /\ ~NestedMessage(posted[1].body)) =>
         auth_result.error = "Authentication failed"

\* C15: authenticate_user makes one remote call; it returns success, with
\* the identifier, email and token of the body, only for an HTTP 200; every
\* other outcome is a failure with a non-empty message: the nested message
\* if the body has one, "Authentication failed" if the body is a JSON object
\* without one, and the description of the exception if the call raised,
\* the body is no JSON object or its "error" member is no object.
C15_OneCallAndClassifiedFailure ==
  auth_result # NoResult =>
    LET resp == posted[1]
        body == resp.body
    IN
    /\ Len(posted) = 1
    /\ auth_result.success =>
         /\ Answered200(resp)
         /\ auth_result.uid = body.members["localId"].value
         /\ auth_result.email = body.members["email"].value
         /\ auth_result.token = body.members["idToken"].value
    /\ ~Answered200(resp) => ~auth_result.success
    /\ ~auth_result.success =>
         /\ auth_result.error # ""
         /\ resp.raises # "" => auth_result.error = resp.raises
         /\ (resp.raises = "" /\ resp.status # 200 /\ NestedMessage(body)) =>
              auth_result.error = body.members["error"].members["message"].value
         /\ auth_result.error = "Authentication failed" <=>
              /\ resp.raises = ""
              /\ resp.status # 200
              /\ ErrorReadable(body)
              /\ ~NestedMessage(body)

C15_Witness ==
  /\ handler = "login_failed"
  /\ Len(posted) = 1
  /\ posted[1].status = 502
  /\ posted[1].body = NotJson
  /\ ~auth_result.success
  /\ auth_result.error # "Authentication failed"

C15_WitnessGenericMessage ==
  /\ handler = "login_failed"
  /\ posted[1].status = 403
  /\ auth_result = [success |-> FALSE, error |-> "Authentication failed"]

\* C19: the script run that receives a result with success = True deletes
\* the four credentials, and the session becomes authenticated again only
\* by a successful login; the run that receives success = False leaves the
\* session as it was, authenticated on the deletion page with the same
\* identifier; Logout, Back to Home and the sidebar's Home delete the four
\* credentials.
C19_SessionLifecycle ==
  /\ [](handler \in {"delete_ok", "logout", "back_to_home", "sidebar_home"} =>
          NoCredentials(session_state))
  /\ [](handler = "delete_ok" => Succeeded(result[1]))
  /\ [](handler = "delete_failed" =>
          /\ Failed(result[1])
          /\ Credentials \subseteq DOMAIN session_state
          /\ Authenticated(session_state)
          /\ session_state["user_uid"] = user_id[1]
          /\ session_state["page"] = "deletion")
  /\ [][(ui = "deleting" /\ ui' = "ready") =>
          /\ Succeeded(result[1]) => NoCredentials(session_state')
          /\ Failed(result[1]) => session_state' = session_state]_vars
  /\ [][(~Authenticated(session_state) /\ Authenticated(session_state')) =>
          /\ handler' = "login_ok"
          /\ auth_result'.success
          /\ session_state'["user_uid"] = auth_result'.uid]_vars
  /\ [][(ui = "ready" /\ ui' = "deleting") => Authenticated(session_state)]_vars

C19_Witness ==
  /\ handler = "delete_ok"
  /\ deletions = 2
  /\ prev[1] # NoResult
  /\ ~prev[1].returned
  /\ prev[1].user_id = user_id[1]
  /\ NoCredentials(session_state)

C19_WitnessFailed ==
  /\ handler = "delete_failed"
  /\ Authenticated(session_state)
  /\ "u1" \notin authUsers
  /\ session_state["user_uid"] = "u1"

====
